---- MODULE Spec2Model ----
(***************************************************************************)
(* CHIP-8 interpreter of GuyWithaPC/chip8rust.                             *)
(*                                                                         *)
(* The repository holds several snapshots of the interpreter:              *)
(*   - src/src/main.rs          the event-loop closure of main(), which    *)
(*                              keeps the machine in local variables;      *)
(*   - src/src/instructions.rs  Emulator::cycle, one fetch-decode-execute  *)
(*                              step on an Emulator aggregate;             *)
(*   - src/src/computerparts.rs Timers::decrement (and the parts main.rs   *)
(*                              repeats: RAM, Stack, Registers);           *)
(*   - src/src/components.rs    Ram and Registers of the Emulator.         *)
(* Each snapshot is a state machine of its own; `machine` says which one   *)
(* a behaviour runs; "loader" is one call of RAM::load_from_rom on an     *)
(* empty RAM, "decoder" one decoding of a byte pair, "registers" a         *)
(* sequence of Registers::set calls.                                       *)
(***************************************************************************)
EXTENDS Integers, Sequences, FiniteSets

VARIABLES
    machine,            \* which snapshot runs: "main", "emulator", "timers",
                        \* "loader", "decoder", "registers"
    overflow_checks,    \* the build: TRUE = debug (integer overflow panics),
                        \*            FALSE = release (integer overflow wraps)
    \* ---- main.rs: the locals of main() captured by the event loop ----
    ram, callstack, display, index_register, registers, program_counter,
    delay_timer, sound_timer, time_since_count, keys_pressed, blocked,
    clock,              \* milliseconds since `now` (main.rs:167)
    current_instruction,\* the word fetched by the last iteration (main.rs:195)
    halted,             \* "running", or the panic that ended the process
    \* ---- instructions.rs: the Emulator aggregate and cycle()'s result ----
    emulator, cycle_result,
    \* ---- computerparts.rs: a Timers value and what was fed to it ----
    timers, fed,
    \* ---- computerparts.rs: the call of RAM::load_from_rom on `ram` ----
    rom_load,
    \* ---- a byte pair and its Instruction::from_bytes / Instruction::from ----
    decoded,
    \* ---- a Registers value and the last Registers::set made on it ----
    regfile

vars == << machine, overflow_checks, ram, callstack, display, index_register,
           registers, program_counter, delay_timer, sound_timer,
           time_since_count, keys_pressed, blocked, clock,
           current_instruction, halted, emulator, cycle_result, timers, fed,
           rom_load, decoded, regfile >>

mainVars_but_halted ==
    << ram, callstack, display, index_register, registers, program_counter,
       delay_timer, sound_timer, time_since_count, keys_pressed, blocked,
       clock, current_instruction >>

mainVars == << mainVars_but_halted, halted >>

-----------------------------------------------------------------------------
(* Program constants *)

SCR_WIDTH == 64
SCR_HEIGHT == 32
RAM_SIZE == 4096
NUM_REGISTERS == 16
NUM_KEYS == 16
PROGRAM_START == 512
U8 == 256
U16 == 65536

-----------------------------------------------------------------------------
(* Bounds of the model *)

\* deepest call stack explored (the Vec of return addresses is unbounded)
MaxStack == 3
\* largest value of `clock` explored, in milliseconds
MaxClock == 18
\* longest total time fed to Timers::decrement, in milliseconds
MaxDelta == 33
\* most calls of Timers::decrement explored
MaxCalls == 4

-----------------------------------------------------------------------------
(* Machine arithmetic *)

Bit(v, i) == (v \div (2 ^ i)) % 2

OrBit  == [p \in 0..1 |-> [q \in 0..1 |-> IF p + q > 0 THEN 1 ELSE 0]]
AndBit == [p \in 0..1 |-> [q \in 0..1 |-> p * q]]
XorBit == [p \in 0..1 |-> [q \in 0..1 |-> (p + q) % 2]]

RECURSIVE BitCombine(_, _, _, _)
\* the byte whose bit i is op[bit i of a][bit i of b]
BitCombine(op, a, b, i) ==
    IF i = 8 THEN 0
    ELSE op[Bit(a, i)][Bit(b, i)] * (2 ^ i) + BitCombine(op, a, b, i + 1)

BitOr(a, b)  == BitCombine(OrBit, a, b, 0)
BitAnd(a, b) == BitCombine(AndBit, a, b, 0)
BitXor(a, b) == BitCombine(XorBit, a, b, 0)

\* u16 addition: panics in a build with overflow checks, wraps otherwise
AddU16(a, b) ==
    [value |-> (a + b) % U16, panic |-> overflow_checks /\ a + b >= U16]

\* [bool; 8], most significant bit first
byte_to_bools(byte) == [i \in 0..7 |-> Bit(byte, 7 - i) = 1]

-----------------------------------------------------------------------------
(* main.rs: RAM, Stack, Display *)

\* a panic ends the process: the state keeps what was done before it
Panic(s, kind) == [s EXCEPT !.halted = kind]
Running(s) == s.halted = "running"

\* RAM::get / RAM::set index a Vec of 4096 bytes: a larger index panics
InRam(addr) == addr < RAM_SIZE

\* RAM::load_from_rom (and Ram::load_from_rom of components.rs): for i in
\* 0..len as u16, set(start_index + i, bytes[i]).  `len as u16` keeps the low
\* 16 bits of the length; the bytes before the first index past the end of
\* the RAM are written, and that index panics (start_index + i passes
\* RAM_SIZE before it can pass 65535).
load_from_rom(s, bytes, start_index) ==
    LET count   == Len(bytes) % U16
        room    == IF start_index < RAM_SIZE THEN RAM_SIZE - start_index ELSE 0
        written == IF count < room THEN count ELSE room
        loaded  == [s EXCEPT !.ram =
                       [a \in 0..(RAM_SIZE - 1) |->
                           IF a >= start_index /\ a < start_index + written
                           THEN bytes[a - start_index + 1] ELSE s.ram[a]]]
    IN IF ~Running(s) THEN s
       ELSE IF count > written THEN Panic(loaded, "OutOfBounds")
       ELSE loaded

\* a push of the address of the call itself instead of the address after it
StackPushCallAddress(stack, pointer) ==
    [pointers |-> Append(stack.pointers, pointer - 2), size |-> stack.size + 1]

\* Stack::push
StackPush(stack, pointer) ==
    [pointers |-> Append(stack.pointers, pointer), size |-> stack.size + 1]

\* a pop that answers address 0 on an empty stack instead of panicking
StackPopOrZero(stack) ==
    IF Len(stack.pointers) = 0
    THEN [ok |-> TRUE, stack |-> stack, value |-> 0]
    ELSE [ok |-> TRUE,
          stack |-> [pointers |-> SubSeq(stack.pointers, 1, Len(stack.pointers) - 1),
                     size |-> stack.size - 1],
          value |-> stack.pointers[Len(stack.pointers)]]

\* Stack::pop: `size -= 1` underflows on an empty stack (a panic with overflow
\* checks), and otherwise `pointers.pop().unwrap()` panics on None.
StackPop(stack) ==
    IF stack.size = 0 \/ Len(stack.pointers) = 0
    THEN [ok |-> FALSE, stack |-> stack, value |-> 0]
    ELSE [ok |-> TRUE,
          stack |-> [pointers |-> SubSeq(stack.pointers, 1, Len(stack.pointers) - 1),
                     size |-> stack.size - 1],
          value |-> stack.pointers[Len(stack.pointers)]]

\* Display::empty and Display::clear
DisplayClear == [i \in 0..(SCR_WIDTH * SCR_HEIGHT - 1) |-> FALSE]

\* a flip_pixel that lights the cell instead of inverting it
flip_pixel_lights(pixels, x, y) ==
    LET idx == y * SCR_WIDTH + x IN
    IF idx >= SCR_WIDTH * SCR_HEIGHT
    THEN [pixels |-> pixels, ret |-> FALSE]
    ELSE [pixels |-> [pixels EXCEPT ![idx] = TRUE], ret |-> pixels[idx]]

\* a flip_pixel that reports the cell's new value instead of its negation
flip_pixel_new_value(pixels, x, y) ==
    LET idx == y * SCR_WIDTH + x IN
    IF idx >= SCR_WIDTH * SCR_HEIGHT
    THEN [pixels |-> pixels, ret |-> FALSE]
    ELSE LET flipped == [pixels EXCEPT ![idx] = ~pixels[idx]] IN
         [pixels |-> flipped, ret |-> flipped[idx]]

\* Display::flip_pixel: an index past the end is ignored and reports false;
\* otherwise the cell is inverted and the negation of its new value returned
flip_pixel(pixels, x, y) ==
    LET idx == y * SCR_WIDTH + x IN
    IF idx >= SCR_WIDTH * SCR_HEIGHT
    THEN [pixels |-> pixels, ret |-> FALSE]
    ELSE LET flipped == [pixels EXCEPT ![idx] = ~pixels[idx]] IN
         [pixels |-> flipped, ret |-> ~flipped[idx]]

-----------------------------------------------------------------------------
(* main.rs: the instruction set of the event loop *)

CLASSIC_BITSHIFT == FALSE
CLASSIC_JUMP == FALSE

\* a ram.set that lands one byte past the address it was given
MainRamSetOnePast(s, base, off, val) ==
    IF ~Running(s) THEN s
    ELSE LET a == AddU16(base, off + 1) IN
         IF a.panic THEN Panic(s, "ArithmeticOverflow")
         ELSE IF ~InRam(a.value) THEN Panic(s, "OutOfBounds")
         ELSE [s EXCEPT !.ram[a.value] = val]

\* ram.set(base + off, val) with the u16 addition and the Vec index checked
MainRamSet(s, base, off, val) ==
    IF ~Running(s) THEN s
    ELSE LET a == AddU16(base, off) IN
         IF a.panic THEN Panic(s, "ArithmeticOverflow")
         ELSE IF ~InRam(a.value) THEN Panic(s, "OutOfBounds")
         ELSE [s EXCEPT !.ram[a.value] = val]

\* opcode 0x8: the flag is written inside the match, registers[n_x] after it
MainAlu(s, n_x, n_y, n_n) ==
    LET rx == s.registers[n_x]
        ry == s.registers[n_y]
        SetFlag(v) == [s EXCEPT !.registers[15] = v]
        shifted == IF CLASSIC_BITSHIFT THEN ry ELSE rx
        flagged ==
            CASE n_n = 4 -> SetFlag(IF rx + ry > 255 THEN 1 ELSE 0)
              [] n_n = 5 -> SetFlag(IF rx > ry THEN 1 ELSE 0)
              [] n_n = 6 -> SetFlag(BitAnd(shifted, 1))
              [] n_n = 7 -> SetFlag(IF ry > rx THEN 1 ELSE 0)
              [] n_n = 14 -> SetFlag(BitAnd(shifted \div 128, 1))
              [] OTHER -> s
        result ==
            CASE n_n = 0 -> ry
              [] n_n = 1 -> BitOr(rx, ry)
              [] n_n = 2 -> BitAnd(rx, ry)
              [] n_n = 3 -> BitXor(rx, ry)
              [] n_n = 4 -> BitAnd(rx + ry, 255)
              [] n_n = 5 -> (rx - ry) % U8
              [] n_n = 6 -> shifted \div 2
              [] n_n = 7 -> (ry - rx) % U8
              [] n_n = 14 -> (shifted * 2) % U8
              [] OTHER -> rx
    IN [flagged EXCEPT !.registers[n_x] = result]

RECURSIVE MainFlipBits(_, _, _, _, _)
\* main.rs:342-347: for x in 0..8, flip the pixel of every set bit
MainFlipBits(d, bytebools, x, x_coord, row) ==
    IF x = 8 THEN d
    ELSE IF bytebools[x]
         THEN LET this_pixel == flip_pixel(d.pixels, x + x_coord, row) IN
              MainFlipBits([pixels |-> this_pixel.pixels,
                            pixflip |-> IF d.pixflip THEN d.pixflip
                                        ELSE this_pixel.ret],
                           bytebools, x + 1, x_coord, row)
         ELSE MainFlipBits(d, bytebools, x + 1, x_coord, row)

RECURSIVE MainDrawRows(_, _, _, _, _, _)
\* main.rs:340-349: for i in 0..n_n, read the row and flip its pixels
MainDrawRows(s, i, n_n, x_coord, y_coord, pixflip) ==
    IF i = n_n THEN [s EXCEPT !.registers[15] = IF pixflip THEN 1 ELSE 0]
    ELSE LET a == AddU16(s.index_register, i) IN
         IF a.panic THEN Panic(s, "ArithmeticOverflow")
         ELSE IF ~InRam(a.value) THEN Panic(s, "OutOfBounds")
         ELSE LET d == MainFlipBits([pixels |-> s.display, pixflip |-> pixflip],
                                    byte_to_bools(s.ram[a.value]), 0,
                                    x_coord, i + y_coord)
              IN MainDrawRows([s EXCEPT !.display = d.pixels],
                              i + 1, n_n, x_coord, y_coord, d.pixflip)

\* opcode 0xD
MainDraw(s, n_x, n_y, n_n) ==
    MainDrawRows(s, 0, n_n, s.registers[n_x] % 64, s.registers[n_y] % 32, FALSE)

RECURSIVE MainStoreLoop(_, _)
\* opcode 0xF/0x55: for i in 0..0xF
MainStoreLoop(s, i) ==
    IF i = 15 \/ ~Running(s) THEN s
    ELSE MainStoreLoop(MainRamSet(s, s.index_register, i, s.registers[i]), i + 1)

RECURSIVE MainLoadLoop(_, _)
\* opcode 0xF/0x65: for i in 0..0xF
MainLoadLoop(s, i) ==
    IF i = 15 \/ ~Running(s) THEN s
    ELSE LET a == AddU16(s.index_register, i) IN
         IF a.panic THEN Panic(s, "ArithmeticOverflow")
         ELSE IF ~InRam(a.value) THEN Panic(s, "OutOfBounds")
         ELSE MainLoadLoop([s EXCEPT !.registers[i] = s.ram[a.value]], i + 1)

\* opcode 0xF
MainMisc(s, n_x, n_nn) ==
    CASE n_nn = 7  -> [s EXCEPT !.registers[n_x] = s.delay_timer]
      [] n_nn = 21 -> [s EXCEPT !.delay_timer = s.registers[n_x]]
      [] n_nn = 24 -> [s EXCEPT !.sound_timer = s.registers[n_x]]
      [] n_nn = 30 -> LET a == AddU16(s.index_register, s.registers[n_x]) IN
                      IF a.panic THEN Panic(s, "ArithmeticOverflow")
                      ELSE [s EXCEPT !.index_register = a.value]
      [] n_nn = 10 -> [s EXCEPT !.blocked = [blocked |-> TRUE, register |-> n_x]]
      [] n_nn = 41 -> [s EXCEPT !.index_register = s.registers[n_x] * 5]
      [] n_nn = 51 ->
            LET vx == s.registers[n_x]
                s1 == MainRamSet(s, s.index_register, 0, vx \div 100)
                s2 == MainRamSet(s1, s.index_register, 1, (vx \div 10) % 10)
            IN MainRamSet(s2, s.index_register, 2, vx % 10)
      [] n_nn = 85 -> MainStoreLoop(s, 0)
      [] n_nn = 101 -> MainLoadLoop(s, 0)
      [] OTHER -> s

\* main.rs:203-406: program_counter += 2, then the match on the opcode
MainExecute(s0, current, random_number) ==
    LET opcode == BitAnd(current \div 256, 240) \div 16
        n_x    == BitAnd(current \div 256, 15)
        n_y    == BitAnd(current % 256, 240) \div 16
        n_n    == BitAnd(current % 256, 15)
        n_nn   == current % 256
        n_nnn  == n_x * 256 + n_nn
        s      == [s0 EXCEPT !.program_counter = s0.program_counter + 2]
        pc     == s.program_counter
        Skip(cond) == IF cond THEN [s EXCEPT !.program_counter = pc + 2] ELSE s
    IN
    CASE opcode = 0 ->
            IF n_nnn = 224 THEN [s EXCEPT !.display = DisplayClear]
            ELSE IF n_nnn = 238
                 THEN LET popped == StackPop(s.callstack) IN
                      IF popped.ok
                      THEN [s EXCEPT !.program_counter = popped.value,
                                     !.callstack = popped.stack]
                      ELSE Panic(s, "StackUnderflow")
                 ELSE s
      [] opcode = 1 -> [s EXCEPT !.program_counter = n_nnn]
      [] opcode = 2 -> [s EXCEPT !.callstack = StackPush(s.callstack, pc),
                                 !.program_counter = n_nnn]
      [] opcode = 3 -> Skip(s.registers[n_x] = n_nn)
      [] opcode = 4 -> Skip(s.registers[n_x] # n_nn)
      [] opcode = 5 -> Skip(s.registers[n_y] = s.registers[n_x])
      [] opcode = 6 -> [s EXCEPT !.registers[n_x] = n_nn]
      [] opcode = 7 -> [s EXCEPT !.registers[n_x] = BitAnd(s.registers[n_x] + n_nn, 255)]
      [] opcode = 8 -> MainAlu(s, n_x, n_y, n_n)
      [] opcode = 9 -> Skip(s.registers[n_y] # s.registers[n_x])
      [] opcode = 10 -> [s EXCEPT !.index_register = n_nnn]
      [] opcode = 11 ->
            IF CLASSIC_JUMP
            THEN [s EXCEPT !.program_counter = n_nnn + s.registers[0]]
            ELSE [s EXCEPT !.program_counter = n_nnn + s.registers[n_x]]
      [] opcode = 12 -> [s EXCEPT !.registers[n_x] = BitAnd(random_number, n_nn)]
      [] opcode = 13 -> MainDraw(s, n_x, n_y, n_n)
      [] opcode = 14 ->
            IF n_nn = 158 THEN Skip(s.keys_pressed[n_x])
            ELSE IF n_nn = 161 THEN Skip(~s.keys_pressed[n_x])
            ELSE s
      [] opcode = 15 -> MainMisc(s, n_x, n_nn)

\* main.rs:171-178: the timer block; delta is the time since `now`
MainTimers(s, delta) ==
    LET counted == s.time_since_count + delta IN
    IF counted > 1000 \div 60
    THEN [s EXCEPT !.delay_timer = IF @ = 0 THEN 0 ELSE @ - 1,
                   !.sound_timer = IF @ = 0 THEN 0 ELSE @ - 1,
                   !.time_since_count = 0]
    ELSE [s EXCEPT !.time_since_count = counted]

RECURSIVE FirstPressed(_, _)
\* main.rs:187-193: the lowest i in 0..0x10 with keys_pressed[i]; 16 if none
FirstPressed(keys, i) ==
    IF i = NUM_KEYS THEN NUM_KEYS
    ELSE IF keys[i] THEN i ELSE FirstPressed(keys, i + 1)

\* main.rs:182-407: a fresh KeyBlock, then the blocked branch or one instruction
MainCpu(s0, random_number) ==
    LET fresh == [blocked |-> FALSE, register |-> 0]
        s     == [s0 EXCEPT !.blocked = fresh]
    IN
    IF s.blocked.blocked
    THEN LET i == FirstPressed(s.keys_pressed, 0) IN
         IF i < NUM_KEYS
         THEN [s EXCEPT !.registers[s.blocked.register] = i,
                        !.blocked.blocked = FALSE]
         ELSE s
    ELSE IF ~InRam(s.program_counter) \/ ~InRam(s.program_counter + 1)
         THEN Panic(s, "OutOfBounds")
         ELSE LET current == s.ram[s.program_counter] * 256
                             + s.ram[s.program_counter + 1]
              IN MainExecute([s EXCEPT !.current_instruction = current],
                             current, random_number)

\* main.rs:432-454: input.update(&event) true: the 16 keys are read anew
MainInput(s, event) ==
    IF event.update /\ Running(s) THEN [s EXCEPT !.keys_pressed = event.keys]
    ELSE s

\* main.rs:169-456: one call of the event-loop closure
MainIteration(s, delta, random_number, event) ==
    MainInput(MainCpu(MainTimers(s, delta), random_number), event)

-----------------------------------------------------------------------------
(* instructions.rs: Emulator::cycle.  A cycle threads t = [self, redraw,   *)
(* summary, halted]: the Emulator, cycle()'s two results, and the panic.   *)

\* an Instruction::from that takes x from the third nibble and y from the
\* second
InstructionFromExchanged(msb, lsb) ==
    LET combined == msb * 256 + lsb IN
    [full   |-> combined,
     opcode |-> (combined \div 4096) % 16,
     x      |-> (combined \div 16) % 16,
     y      |-> (combined \div 256) % 16,
     n      |-> combined % 16,
     byte   |-> lsb,
     addr   |-> combined % 4096]

\* an Instruction::from that takes y from the second nibble, as it does x
InstructionFromOneRegister(msb, lsb) ==
    LET combined == msb * 256 + lsb IN
    [full   |-> combined,
     opcode |-> (combined \div 4096) % 16,
     x      |-> (combined \div 256) % 16,
     y      |-> (combined \div 256) % 16,
     n      |-> combined % 16,
     byte   |-> lsb,
     addr   |-> combined % 4096]

\* Instruction::from
InstructionFrom(msb, lsb) ==
    LET combined == msb * 256 + lsb IN
    [full   |-> combined,
     opcode |-> (combined \div 4096) % 16,
     x      |-> (combined \div 256) % 16,
     y      |-> (combined \div 16) % 16,
     n      |-> combined % 16,
     byte   |-> lsb,
     addr   |-> combined % 4096]

\* a Ram::set that reduces the address modulo the size of the memory
EmuRamSetWrapped(t, base, off, val) ==
    IF ~Running(t) THEN t
    ELSE [t EXCEPT !.self.ram[(base + off) % RAM_SIZE] = val]

\* Ram::set(base + off, val) on [u8; RAM_SIZE]
EmuRamSet(t, base, off, val) ==
    IF ~Running(t) THEN t
    ELSE LET a == AddU16(base, off) IN
         IF a.panic THEN Panic(t, "ArithmeticOverflow")
         ELSE IF ~InRam(a.value) THEN Panic(t, "OutOfBounds")
         ELSE [t EXCEPT !.self.ram[a.value] = val]

\* a Registers::set that clears the flag register when it writes another
EmuSetClearsFlag(t, reg, val) ==
    IF reg = 15 THEN [t EXCEPT !.self.registers[reg] = val]
    ELSE [t EXCEPT !.self.registers[reg] = val, !.self.registers[15] = 0]

\* Registers::set
EmuSet(t, reg, val) == [t EXCEPT !.self.registers[reg] = val]

\* CLS (instructions.rs:54-56): `for mut row in self.display` iterates over a
\* copy of the array of rows, so the rows that are filled are not the display's
EmuCls(t) ==
    LET filled == [col \in 0..(SCR_WIDTH - 1) |-> [r \in 0..(SCR_HEIGHT - 1) |-> FALSE]]
    IN t

RECURSIVE EmuSpriteBytes(_, _, _, _)
\* instructions.rs:209-211: the n sprite bytes, read before anything is drawn
EmuSpriteBytes(t, i, n, bytes) ==
    IF i = n THEN [t |-> t, bytes |-> bytes]
    ELSE LET a == AddU16(t.self.stack_pointer, i) IN
         IF a.panic THEN [t |-> Panic(t, "ArithmeticOverflow"), bytes |-> bytes]
         ELSE IF ~InRam(a.value) THEN [t |-> Panic(t, "OutOfBounds"), bytes |-> bytes]
         ELSE EmuSpriteBytes(t, i + 1, n, Append(bytes, t.self.ram[a.value]))

RECURSIVE EmuDrawBits(_, _, _, _, _)
\* instructions.rs:214-225: one row of 8 bits
EmuDrawBits(d, bools, x_off, x, y_pos) ==
    IF x_off = 8 THEN d
    ELSE LET x_pos == (x + x_off) % 64 IN
         IF bools[x_off]
         THEN IF d.display[x_pos][y_pos]
              THEN EmuDrawBits([display |-> [d.display EXCEPT ![x_pos][y_pos] = FALSE],
                                collision |-> 1], bools, x_off + 1, x, y_pos)
              ELSE EmuDrawBits([display |-> [d.display EXCEPT ![x_pos][y_pos] = TRUE],
                                collision |-> d.collision], bools, x_off + 1, x, y_pos)
         ELSE EmuDrawBits(d, bools, x_off + 1, x, y_pos)

RECURSIVE EmuDrawRows(_, _, _, _, _)
\* instructions.rs:212-226
EmuDrawRows(d, bytes, y_off, x, y) ==
    IF y_off = Len(bytes) THEN d
    ELSE EmuDrawRows(EmuDrawBits(d, byte_to_bools(bytes[y_off + 1]), 0, x,
                                 (y + y_off) % 32),
                     bytes, y_off + 1, x, y)

\* DRAW (instructions.rs:203-228)
EmuDraw(t0, x, y, n) ==
    LET t1   == [t0 EXCEPT !.redraw = TRUE]
        read == EmuSpriteBytes(t1, 0, n, << >>)
    IN
    IF ~Running(read.t) THEN read.t
    ELSE LET d == EmuDrawRows([display |-> t1.self.display, collision |-> 0],
                              read.bytes, 0, x, y)
         IN EmuSet([t1 EXCEPT !.self.display = d.display], 15, d.collision)

RECURSIVE EmuStoreLoop(_, _, _)
\* STORE R0..RX (instructions.rs:291-294): for i in 0..=x_reg
EmuStoreLoop(t, i, x_reg) ==
    IF i > x_reg \/ ~Running(t) THEN t
    ELSE EmuStoreLoop(EmuRamSet(t, t.self.stack_pointer, i, t.self.registers[i]),
                      i + 1, x_reg)

RECURSIVE EmuLoadLoop(_, _, _)
\* LOAD R0..RX (instructions.rs:299-302): for i in 0..=x_reg
EmuLoadLoop(t, i, x_reg) ==
    IF i > x_reg \/ ~Running(t) THEN t
    ELSE LET a == AddU16(t.self.stack_pointer, i) IN
         IF a.panic THEN Panic(t, "ArithmeticOverflow")
         ELSE IF ~InRam(a.value) THEN Panic(t, "OutOfBounds")
         ELSE EmuLoadLoop(EmuSet(t, i, t.self.ram[a.value]), i + 1, x_reg)

\* a cycle() that aborts on an instruction word it does not know
SaidUnknownAborts(t, text) ==
    IF text = "???" THEN Panic(t, "UnknownOpcode")
    ELSE [t EXCEPT !.summary.text = text]

\* the text cycle() appends to the summary after the instruction word
Said(t, text) == [t EXCEPT !.summary.text = text]

\* opcode 0x8 (instructions.rs:113-179)
EmuAlu(t, x_reg, y_reg, x, y, n) ==
    CASE n = 0 -> Said(EmuSet(t, x_reg, y), "COPY")
      [] n = 1 -> Said(EmuSet(t, x_reg, BitOr(x, y)), "OR")
      [] n = 2 -> Said(EmuSet(t, x_reg, BitAnd(x, y)), "AND")
      [] n = 3 -> Said(EmuSet(t, x_reg, BitXor(x, y)), "XOR")
      [] n = 4 -> Said(EmuSet(EmuSet(t, 15, IF x + y >= U8 THEN 1 ELSE 0),
                              x_reg, (x + y) % U8), "ADD")
      [] n = 5 -> Said(EmuSet(EmuSet(t, 15, IF x - y < 0 THEN 0 ELSE 1),
                              x_reg, (x - y) % U8), "SUB")
      [] n = 6 -> Said(EmuSet(EmuSet(t, 15, BitAnd(x, 1)), x_reg, x \div 2), "SHR")
      [] n = 7 -> Said(EmuSet(EmuSet(t, 15, IF y - x < 0 THEN 0 ELSE 1),
                              x_reg, (y - x) % U8), "SUB")
      [] n = 14 -> Said(EmuSet(EmuSet(t, 15, BitAnd(x, 128) \div 128),
                               x_reg, (x * 2) % U8), "SHL")
      [] OTHER -> Said(t, "???")

\* opcode 0xF (instructions.rs:250-309)
EmuMisc(t, x_reg, x, byte) ==
    CASE byte = 7  -> Said(EmuSet(t, x_reg, t.self.timer), "TIMER =>")
      [] byte = 10 -> Said([t EXCEPT !.self.key_block = x_reg], "KEYBLOCK")
      [] byte = 21 -> Said([t EXCEPT !.self.timer = x], "=> TIMER")
      [] byte = 24 -> Said([t EXCEPT !.self.sound_timer = x], "=> SOUND")
      [] byte = 30 -> LET a == AddU16(t.self.stack_pointer, x) IN
                      IF a.panic THEN Panic(t, "ArithmeticOverflow")
                      ELSE Said([t EXCEPT !.self.stack_pointer = a.value], "STKP +=")
      [] byte = 41 -> Said([t EXCEPT !.self.stack_pointer = x * 5], "STKP = DGT")
      [] byte = 51 ->
            LET t1 == EmuRamSet(t, t.self.stack_pointer, 0, x \div 100)
                t2 == EmuRamSet(t1, t.self.stack_pointer, 1, (x \div 10) % 10)
            IN Said(EmuRamSet(t2, t.self.stack_pointer, 2, x % 10), "STORE DEC")
      [] byte = 85 -> Said(EmuStoreLoop(t, 0, x_reg), "STORE")
      [] byte = 101 -> Said(EmuLoadLoop(t, 0, x_reg), "STORE")
      [] OTHER -> Said(t, "???")

\* instructions.rs:37-313: program_counter += 2, then the match on the opcode
EmuExecute(t0, instruction, random) ==
    LET t     == [t0 EXCEPT !.self.program_counter = @ + 2]
        pc    == t.self.program_counter
        x_reg == instruction.x
        y_reg == instruction.y
        x     == t.self.registers[x_reg]
        y     == t.self.registers[y_reg]
        n     == instruction.n
        byte  == instruction.byte
        addr  == instruction.addr
        Skip(cond) == IF cond THEN [t EXCEPT !.self.program_counter = pc + 2] ELSE t
        KeyHeld(k) == t.self.keys[k]
    IN
    CASE instruction.opcode = 0 ->
            IF byte = 224 THEN Said(EmuCls(t), "CLS")
            ELSE IF byte = 238
                 THEN IF Len(t.self.call_stack) = 0
                      THEN Panic(t, "StackUnderflow")
                      ELSE Said([t EXCEPT
                                  !.self.program_counter =
                                      t.self.call_stack[Len(t.self.call_stack)],
                                  !.self.call_stack =
                                      SubSeq(@, 1, Len(@) - 1)], "RET")
                 ELSE Said(t, "???")
      [] instruction.opcode = 1 -> Said([t EXCEPT !.self.program_counter = addr], "JMP")
      [] instruction.opcode = 2 ->
            Said([t EXCEPT !.self.call_stack = Append(@, pc),
                           !.self.program_counter = addr], "CALL")
      [] instruction.opcode = 3 -> Said(Skip(x = byte), "SKIPIF ==")
      [] instruction.opcode = 4 -> Said(Skip(x # byte), "SKIPIF !=")
      [] instruction.opcode = 5 -> Said(Skip(x = y), "SKIPIF ==")
      [] instruction.opcode = 6 -> Said(EmuSet(t, x_reg, byte), "IMM")
      [] instruction.opcode = 7 -> Said(EmuSet(t, x_reg, (x + byte) % U8), "IMM ADD")
      [] instruction.opcode = 8 -> EmuAlu(t, x_reg, y_reg, x, y, n)
      [] instruction.opcode = 9 -> Said(Skip(x # y), "SKIPIF !=")
      [] instruction.opcode = 10 ->
            Said([t EXCEPT !.self.stack_pointer = addr], "Set stack pointer")
      [] instruction.opcode = 11 ->
            Said([t EXCEPT !.self.stack_pointer = addr + t.self.registers[0]], "JMPP")
      [] instruction.opcode = 12 -> Said(EmuSet(t, x_reg, BitAnd(random, byte)), "RAND")
      [] instruction.opcode = 13 ->
            LET drawn == EmuDraw(t, x, y, n) IN
            IF Running(drawn) THEN Said(drawn, "DRAW") ELSE drawn
      [] instruction.opcode = 14 ->
            IF byte = 158 \/ byte = 161
            THEN IF x >= NUM_KEYS THEN Panic(t, "KeyIndexOutOfBounds")
                 ELSE IF byte = 158 THEN Said(Skip(KeyHeld(x)), "SKIPIF KEY ==")
                      ELSE Said(Skip(~KeyHeld(x)), "SKIPIF KEY !=")
            ELSE Said(t, "???")
      [] instruction.opcode = 15 -> EmuMisc(t, x_reg, x, byte)

\* Emulator::cycle (instructions.rs:29-316): [self, redraw, summary, halted]
cycle(self, random) ==
    LET t0 == [self |-> self, redraw |-> FALSE,
               summary |-> [full |-> 0, text |-> ""], halted |-> "running"]
        pc == self.program_counter
    IN
    IF ~InRam(pc) \/ ~InRam(pc + 1) THEN Panic(t0, "OutOfBounds")
    ELSE LET instruction == InstructionFrom(self.ram[pc], self.ram[pc + 1])
             done == EmuExecute(t0, instruction, random)
         IN [done EXCEPT !.summary.full = instruction.full]

-----------------------------------------------------------------------------
(* computerparts.rs: Instruction::from_bytes and Registers *)

\* a decoder that takes x from the low byte and y from the high byte
from_bytes_exchanged(highbyte, lowbyte) ==
    [opcode |-> BitAnd(highbyte, \HF0) \div 16,
     x      |-> BitAnd(lowbyte, \HF0) \div 16,
     y      |-> BitAnd(highbyte, \H0F),
     n      |-> BitAnd(lowbyte, \H0F),
     nn     |-> lowbyte,
     nnn    |-> BitAnd(highbyte, \H0F) * 256 + BitAnd(lowbyte, \HFF)]

\* Instruction::from_bytes; (highbyte << 8 | lowbyte) & 0x0FFF masks the
\* high byte with 0x0F and the low byte with 0xFF
from_bytes(highbyte, lowbyte) ==
    [opcode |-> BitAnd(highbyte, \HF0) \div 16,
     x      |-> BitAnd(highbyte, \H0F),
     y      |-> BitAnd(lowbyte, \HF0) \div 16,
     n      |-> BitAnd(lowbyte, \H0F),
     nn     |-> lowbyte,
     nnn    |-> BitAnd(highbyte, \H0F) * 256 + BitAnd(lowbyte, \HFF)]

\* Registers::get on the 16 registers: `reg as usize` indexes them
RegistersGet(gen, reg) == gen[reg]

\* a set that writes the flag register along with the one it was given
RegistersSetAndFlag(gen, reg, val) ==
    IF reg >= NUM_REGISTERS THEN [gen |-> gen, halted |-> "OutOfBounds"]
    ELSE [gen |-> [gen EXCEPT ![reg] = val, ![15] = val], halted |-> "running"]

\* Registers::set (computerparts.rs:95-97, components.rs:59-61); an index
\* past the 16 registers panics
RegistersSet(gen, reg, val) ==
    IF reg >= NUM_REGISTERS THEN [gen |-> gen, halted |-> "OutOfBounds"]
    ELSE [gen |-> [gen EXCEPT ![reg] = val], halted |-> "running"]

-----------------------------------------------------------------------------
(* computerparts.rs: Timers *)

\* Duration::as_millis of a duration given in microseconds: whole milliseconds
as_millis(dur) == dur \div 1000

\* Timers::new
TimersNew == [delay |-> 0, sound |-> 0, delta |-> 0]

\* Timers::decrement
decrement(self, dur) ==
    LET added == [self EXCEPT !.delta = @ + as_millis(dur)] IN
    IF added.delta >= 1000 \div 60
    THEN [added EXCEPT !.delay = IF @ = 0 THEN 0 ELSE @ - 1,
                       !.sound = IF @ = 0 THEN 0 ELSE @ - 1]
    ELSE added

-----------------------------------------------------------------------------
(* What the driver supplies: ROM files, key states, random bytes, durations *)

\* the bytes of a ROM file given as 16-bit words, high byte first
RomBytes(words) ==
    [i \in 1..(2 * Len(words)) |->
        IF i % 2 = 1 THEN words[(i + 1) \div 2] \div 256 ELSE words[i \div 2] % 256]

\* SysROM/font.bin: 16 glyphs of 5 bytes
FontBin ==
    << \HF0, \H90, \H90, \H90, \HF0,   \H20, \H60, \H20, \H20, \H70,
       \HF0, \H10, \HF0, \H80, \HF0,   \HF0, \H10, \HF0, \H10, \HF0,
       \H90, \H90, \HF0, \H10, \H10,   \HF0, \H80, \HF0, \H10, \HF0,
       \HF0, \H80, \HF0, \H90, \HF0,   \HF0, \H10, \H20, \H40, \H40,
       \HF0, \H90, \HF0, \H90, \HF0,   \HF0, \H90, \HF0, \H10, \HF0,
       \HF0, \H90, \HF0, \H90, \H90,   \HE0, \H90, \HE0, \H90, \HE0,
       \HF0, \H80, \H80, \H80, \HF0,   \HE0, \H90, \H90, \H90, \HE0,
       \HF0, \H80, \HF0, \H80, \HF0,   \HF0, \H80, \HF0, \H80, \H80 >>

\* wait for a key into V3, then go on
KeyRom == << \HF30A, \H7301, \HE39E, \H1208, \H1208 >>
\* nested calls and returns, then a return on the empty stack
CallRom == << \H2206, \H220A, \H00EE, \H220A, \H00EE, \H00EE >>
\* a routine that calls itself
RecurseRom == << \H2200 >>
\* V2 = random & 6, V0 = 4, I = 0x123, jump to 0x20A + V2 (BXNN)
JumpRom == << \HC206, \H6004, \HA123, \HB20A, \H1208,
              \H120A, \H120C, \H120E, \H1210 >>
\* draw the 2-row sprite FF 81 at (V0, V1) twice, its first row once, clear
DrawRom(x, y) == << \H6000 + x, \H6100 + y, \HA210, \HD012, \HD012, \HD011,
                    \H00E0, \H120E, \HFF81 >>
\* two random bytes through the ALU
AluRom == << \HC0FF, \HC1FF, \H8014, \H8015, \H8016, \H8017, \H801E,
             \H8013, \H8012, \H8011, \H8010, \H1216 >>
\* set both timers from V0, read the delay timer back
TimerRom == << \H6003, \HF015, \HF018, \HF107, \H1208 >>

\* the ALU operations that define a flag, with register 0xF as their target
FlagRom == << \HC1FF, \HCFFF, \H8F14, \HCFFF, \H8F16, \HCFFF, \H8F1E,
              \HCFFF, \H8F15, \HCFFF, \H8F17, \H1216 >>
\* store V0..V1 at 0x300, load V0 from the font, then both with x = 0xF
MemRom == << \H6011, \H6122, \H6533, \H6F44, \HA300, \HF155, \HA000, \HF065,
             \HA310, \HFF55, \HA000, \HFF65, \H1218 >>
\* key tests on V0 = 4 (a key) and on V1 = 16 (past the last key)
KeySkipRom == << \H6004, \HE09E, \H1206, \HE0A1, \H120A, \H6110, \HE19E,
                 \H1210, \HE1A1, \H1214, \H1214 >>
\* registers, delay timer, a sprite, I and a call, then instruction words
\* that no arm of the match knows
UnknownRom == << \H6105, \H62AA, \HF115, \HD121, \HA234, \H220C, \H0123,
                 \H8128, \H812F, \HE100, \HF1FF, \HF100, \H1218 >>
\* the decimal digits of V0 = 156 at 0x300, of a random V1 at 0x310
BcdRom == << \H609C, \HA300, \HF033, \HC1FF, \HA310, \HF133, \H120C >>
\* V0 = 5, V0 += 3, I = glyph of V0; the jump to itself at 0x206 keeps the
\* program counter from running on through the empty memory
EndToEndRom == << \H6005, \H7003, \HF029, \H1206 >>
\* draws that set no pixel: a sprite row of zero bits, a sprite of no rows
BlankDrawRom == << \HA300, \HD011, \HD010, \H1206 >>
\* VF = 7, then instructions that define no flag (7XNN wrapping, 8XY0..3,
\* CXNN), then the four conditional skips on a random V0 and V1 = 2
FrameRom == << \H6F07, \H60FF, \H7002, \H6102, \H8011, \H8012, \H8013, \H8010,
               \HC0FF, \H3002, \H4002, \H5010, \H9010, \H121A, \H121C >>
\* accesses that run past the last byte of the memory: a store of V0..V2 at
\* 0xFFE, a load of V0..V1 at 0xFFF, the digits of V0 at 0xFFE, a sprite of
\* two rows at 0xFFF, a fetch at 0xFFF
OobStoreRom == << \HAFFE, \H6011, \H6122, \H6233, \HF255 >>
OobLoadRom == << \HAFFF, \HF165 >>
OobBcdRom == << \HAFFE, \H60EA, \HF033 >>
OobDrawRom == << \HAFFF, \HD012 >>
OobFetchRom == << \H1FFF >>
OobRoms == {OobStoreRom, OobLoadRom, OobBcdRom, OobDrawRom, OobFetchRom}

\* the most FX1E can add to the address register, added until it holds
\* 0xFF0 + AddressSumAdds * 255 = 65535, then a store of V0..V1 there
AddressSumAdds == 241
AddressSumRom ==
    << \H60FF, \HAFF0 >> \o [i \in 1..AddressSumAdds |-> \HF01E] \o << \HF155 >>

DrawXs == {4, 60, 124}
DrawYs == {2, 31}

Roms ==
    {KeyRom, CallRom, RecurseRom, JumpRom, AluRom, TimerRom, FlagRom, MemRom,
     KeySkipRom, UnknownRom, BcdRom, EndToEndRom, BlankDrawRom, FrameRom}
        \cup OobRoms
        \cup {DrawRom(x, y) : x \in DrawXs, y \in DrawYs}

\* the keys held, as the 16 booleans the driver hands over
KeyState(held) == [k \in 0..(NUM_KEYS - 1) |-> k \in held]
KeyStates == {KeyState({}), KeyState({4}), KeyState({2, 9})}

\* rand::random::<u8>()
RandBytes == {0, 2, 255}

\* milliseconds between two calls of the event-loop closure (main.rs)
Elapsed == {0, 9}

\* durations handed to Timers::decrement, in microseconds
Durations == {0, 500, 8000, 15500, 16000}

\* timer values before the first decrement
TimerStarts == {0, 1, 2, 255}

\* a ROM file of `len` bytes, none of them zero
RomFile(len) == [i \in 1..len |-> (i % 255) + 1]

\* sizes of the ROM files handed to load_from_rom: up to the RAM's size,
\* past it, and at and past 2^16
RomLengths == {0, 1, 80, 3584, 3585, 4096, 4097, 65535, 65536, 65537, 69632}

\* start addresses handed to load_from_rom (a u16)
LoadStarts == {0, PROGRAM_START, 4095, 4096, 65535}

\* the bytes a decoder is handed
DecodeBytes == {\H00, \H0F, \HF0, \HFF, \H12, \H80, \H6A, \HD5}

\* the register numbers (a u8) and values handed to Registers::set
RegIndexes == {0, 7, 15, 16}
RegValues == {9, 255}

-----------------------------------------------------------------------------
(* Construction *)

ZeroRam == [a \in 0..(RAM_SIZE - 1) |-> 0]

\* main.rs:137-162: the machine before the first event, with the ROM `rom`
MainNew(rom) ==
    LET empty == [ram |-> ZeroRam,
                  callstack |-> [pointers |-> << >>, size |-> 0],
                  display |-> DisplayClear,
                  index_register |-> 0,
                  registers |-> [r \in 0..15 |-> 0],
                  program_counter |-> PROGRAM_START,
                  delay_timer |-> 0,
                  sound_timer |-> 0,
                  time_since_count |-> 0,
                  keys_pressed |-> KeyState({}),
                  blocked |-> [blocked |-> FALSE, register |-> 0],
                  current_instruction |-> 0,
                  halted |-> "running"]
    IN load_from_rom(load_from_rom(empty, FontBin, 0), rom, PROGRAM_START)

\* the locals of main() as one record
MainState ==
    [ram |-> ram, callstack |-> callstack, display |-> display,
     index_register |-> index_register, registers |-> registers,
     program_counter |-> program_counter, delay_timer |-> delay_timer,
     sound_timer |-> sound_timer, time_since_count |-> time_since_count,
     keys_pressed |-> keys_pressed, blocked |-> blocked,
     current_instruction |-> current_instruction, halted |-> halted]

MainIs(s) ==
    /\ ram = s.ram
    /\ callstack = s.callstack
    /\ display = s.display
    /\ index_register = s.index_register
    /\ registers = s.registers
    /\ program_counter = s.program_counter
    /\ delay_timer = s.delay_timer
    /\ sound_timer = s.sound_timer
    /\ time_since_count = s.time_since_count
    /\ keys_pressed = s.keys_pressed
    /\ blocked = s.blocked
    /\ current_instruction = s.current_instruction

\* Ram::new and Ram::load_from_rom (components.rs:10-30) of font and ROM
EmulatorRam(rom) ==
    load_from_rom(load_from_rom([ram |-> ZeroRam, halted |-> "running"],
                                FontBin, 0), rom, PROGRAM_START)

\* the Emulator before its first cycle
EmulatorNew(rom) ==
    [ram |-> EmulatorRam(rom).ram,
     program_counter |-> PROGRAM_START,
     stack_pointer |-> 0,
     registers |-> [r \in 0..(NUM_REGISTERS - 1) |-> 0],
     call_stack |-> << >>,
     display |-> [col \in 0..(SCR_WIDTH - 1) |-> [r \in 0..(SCR_HEIGHT - 1) |-> FALSE]],
     keys |-> KeyState({}),
     key_block |-> NUM_REGISTERS,
     timer |-> 0,
     sound_timer |-> 0]

NoResult == [redraw |-> FALSE, summary |-> [full |-> 0, text |-> ""]]
NothingFed == [total |-> 0, calls |-> 0, delay |-> 0, sound |-> 0]
NoLoad == [start_index |-> 0, len |-> 0, done |-> FALSE]
NothingDecoded ==
    [highbyte |-> 0, lowbyte |-> 0, done |-> FALSE,
     from_bytes |-> from_bytes(0, 0), from |-> InstructionFrom(0, 0)]
\* Registers::new (computerparts.rs:85-91, components.rs:51-55); no set yet
RegistersNew ==
    [gen |-> [r \in 0..(NUM_REGISTERS - 1) |-> 0],
     called |-> FALSE, reg |-> 0, val |-> 0, got |-> 0]

InitMain ==
    /\ machine = "main"
    /\ \E rom \in Roms :
         \E s \in {MainNew(RomBytes(rom))} : MainIs(s) /\ halted = s.halted
    /\ clock = 0
    /\ emulator = EmulatorNew(<< >>)
    /\ cycle_result = NoResult
    /\ timers = TimersNew
    /\ fed = NothingFed
    /\ rom_load = NoLoad
    /\ decoded = NothingDecoded
    /\ regfile = RegistersNew

InitEmulator ==
    /\ machine = "emulator"
    /\ \E rom \in Roms \cup {AddressSumRom} :
         /\ emulator = EmulatorNew(RomBytes(rom))
         /\ halted = EmulatorRam(RomBytes(rom)).halted
    /\ cycle_result = NoResult
    /\ MainIs(MainNew(<< >>))
    /\ clock = 0
    /\ timers = TimersNew
    /\ fed = NothingFed
    /\ rom_load = NoLoad
    /\ decoded = NothingDecoded
    /\ regfile = RegistersNew

InitTimers ==
    /\ machine = "timers"
    /\ \E d \in TimerStarts, snd \in TimerStarts :
         /\ timers = [TimersNew EXCEPT !.delay = d, !.sound = snd]
         /\ fed = [NothingFed EXCEPT !.delay = d, !.sound = snd]
    /\ MainIs(MainNew(<< >>))
    /\ halted = "running"
    /\ clock = 0
    /\ emulator = EmulatorNew(<< >>)
    /\ cycle_result = NoResult
    /\ rom_load = NoLoad
    /\ decoded = NothingDecoded
    /\ regfile = RegistersNew

\* RAM::empty (computerparts.rs:11-16), and a ROM file about to be loaded
InitLoader ==
    /\ machine = "loader"
    /\ \E start_index \in LoadStarts, len \in RomLengths :
         rom_load = [start_index |-> start_index, len |-> len, done |-> FALSE]
    /\ MainIs([MainNew(<< >>) EXCEPT !.ram = ZeroRam])
    /\ halted = "running"
    /\ clock = 0
    /\ emulator = EmulatorNew(<< >>)
    /\ cycle_result = NoResult
    /\ timers = TimersNew
    /\ fed = NothingFed
    /\ decoded = NothingDecoded
    /\ regfile = RegistersNew

\* the machine parts no call is made on
IdleParts ==
    /\ MainIs(MainNew(<< >>))
    /\ halted = "running"
    /\ clock = 0
    /\ emulator = EmulatorNew(<< >>)
    /\ cycle_result = NoResult
    /\ timers = TimersNew
    /\ fed = NothingFed
    /\ rom_load = NoLoad

\* two bytes about to be decoded
InitDecoder ==
    /\ machine = "decoder"
    /\ \E highbyte \in DecodeBytes, lowbyte \in DecodeBytes :
         decoded = [NothingDecoded EXCEPT !.highbyte = highbyte,
                                          !.lowbyte = lowbyte]
    /\ regfile = RegistersNew
    /\ IdleParts

\* Registers::new
InitRegisters ==
    /\ machine = "registers"
    /\ regfile = RegistersNew
    /\ decoded = NothingDecoded
    /\ IdleParts

Init ==
    /\ overflow_checks \in BOOLEAN
    /\ (InitMain \/ InitEmulator \/ InitTimers \/ InitLoader
          \/ InitDecoder \/ InitRegisters)

-----------------------------------------------------------------------------
(* Steps *)

\* what the window system hands the closure: no input update, or the keys
Events == {[update |-> FALSE, keys |-> KeyState({})]}
              \cup {[update |-> TRUE, keys |-> k] : k \in KeyStates}

\* rand::random() is called by opcode 0xC alone (main.rs:331,
\* instructions.rs:199): the bytes it may return to the instruction at pc
Randoms(memory, pc) ==
    IF InRam(pc) /\ memory[pc] \div 16 = 12 THEN RandBytes ELSE {0}

\* one call of the event-loop closure of main.rs
MainLoop ==
    /\ machine = "main"
    /\ halted = "running"
    /\ \E d \in Elapsed, random_number \in Randoms(ram, program_counter),
          event \in Events :
         /\ clock + d <= MaxClock
         /\ \E s \in {MainIteration(MainState, clock + d, random_number, event)} :
              /\ Len(s.callstack.pointers) <= MaxStack
              /\ ram' = s.ram
              /\ callstack' = s.callstack
              /\ display' = s.display
              /\ index_register' = s.index_register
              /\ registers' = s.registers
              /\ program_counter' = s.program_counter
              /\ delay_timer' = s.delay_timer
              /\ sound_timer' = s.sound_timer
              /\ time_since_count' = s.time_since_count
              /\ keys_pressed' = s.keys_pressed
              /\ blocked' = s.blocked
              /\ current_instruction' = s.current_instruction
              /\ halted' = s.halted
         /\ clock' = clock + d
    /\ UNCHANGED << machine, overflow_checks, emulator, cycle_result, timers, fed,
                    rom_load, decoded, regfile >>

\* the driver hands the Emulator the keys held and calls cycle()
SupplyKeys(self, keys) == [self EXCEPT !.keys = keys]

EmulatorStep ==
    /\ machine = "emulator"
    /\ halted = "running"
    /\ \E keys \in KeyStates,
          random \in Randoms(emulator.ram, emulator.program_counter) :
         \E t \in {cycle(SupplyKeys(emulator, keys), random)} :
           /\ Len(t.self.call_stack) <= MaxStack
           /\ emulator' = t.self
           /\ halted' = t.halted
           /\ cycle_result' = IF Running(t)
                              THEN [redraw |-> t.redraw, summary |-> t.summary]
                              ELSE cycle_result
    /\ UNCHANGED << machine, overflow_checks, mainVars_but_halted, timers, fed,
                    rom_load, decoded, regfile >>

\* one call of Timers::decrement
TimersDecrement ==
    /\ machine = "timers"
    /\ fed.calls < MaxCalls
    /\ \E dur \in Durations :
         /\ fed.total + dur <= MaxDelta * 1000
         /\ timers' = decrement(timers, dur)
         /\ fed' = [fed EXCEPT !.total = @ + dur, !.calls = @ + 1]
    /\ UNCHANGED << machine, overflow_checks, mainVars, emulator, cycle_result,
                    rom_load, decoded, regfile >>

\* one call of RAM::load_from_rom (computerparts.rs:20-28; Ram::load_from_rom
\* of components.rs:21-30 has the same loop) with the file's bytes
LoadRom ==
    /\ machine = "loader"
    /\ ~rom_load.done
    /\ \E s \in {load_from_rom([ram |-> ram, halted |-> halted],
                               RomFile(rom_load.len), rom_load.start_index)} :
         /\ ram' = s.ram
         /\ halted' = s.halted
    /\ rom_load' = [rom_load EXCEPT !.done = TRUE]
    /\ UNCHANGED << machine, overflow_checks, callstack, display, index_register,
                    registers, program_counter, delay_timer, sound_timer,
                    time_since_count, keys_pressed, blocked, clock,
                    current_instruction, emulator, cycle_result, timers, fed,
                    decoded, regfile >>

\* one decoding of the byte pair by both decoders
Decode ==
    /\ machine = "decoder"
    /\ ~decoded.done
    /\ decoded' = [decoded EXCEPT
                     !.done = TRUE,
                     !.from_bytes = from_bytes(decoded.highbyte, decoded.lowbyte),
                     !.from = InstructionFrom(decoded.highbyte, decoded.lowbyte)]
    /\ UNCHANGED << machine, overflow_checks, mainVars, emulator, cycle_result,
                    timers, fed, rom_load, regfile >>

\* registers.set(reg, val), then registers.get(reg)
RegistersCall ==
    /\ machine = "registers"
    /\ halted = "running"
    /\ \E reg \in RegIndexes, val \in RegValues :
         \E r \in {RegistersSet(regfile.gen, reg, val)} :
           /\ halted' = r.halted
           /\ regfile' = [gen |-> r.gen, called |-> TRUE, reg |-> reg, val |-> val,
                          got |-> IF r.halted = "running"
                                  THEN RegistersGet(r.gen, reg) ELSE regfile.got]
    /\ UNCHANGED << machine, overflow_checks, mainVars_but_halted, emulator,
                    cycle_result, timers, fed, rom_load, decoded >>

Next == MainLoop \/ EmulatorStep \/ TimersDecrement \/ LoadRom
          \/ Decode \/ RegistersCall

Spec == Init /\ [][Next]_vars

-----------------------------------------------------------------------------
(* What a step is about to do, read from the state before it *)

\* the instruction word at the program counter of main.rs; -1 past the RAM
MainWord ==
    IF InRam(program_counter) /\ InRam(program_counter + 1)
    THEN ram[program_counter] * 256 + ram[program_counter + 1] ELSE -1

\* the instruction word at the Emulator's program counter; -1 past the RAM
EmuWord ==
    IF InRam(emulator.program_counter) /\ InRam(emulator.program_counter + 1)
    THEN emulator.ram[emulator.program_counter] * 256
         + emulator.ram[emulator.program_counter + 1]
    ELSE -1

MainRuns == machine = "main" /\ halted = "running"
EmuRuns == machine = "emulator" /\ halted = "running"

Nibble(word, k) == (word \div (16 ^ (3 - k))) % 16
Low12(word) == word % 4096

NoKeyHeld(keys) == \A k \in 0..(NUM_KEYS - 1) : ~keys[k]

\* the cells DXYN names: bit c of row r of the sprite at I, placed at
\* (vx + c, vy + r) and wrapped on both axes
SpriteCells(memory, address, vx, vy, n) ==
    { << (vx + rc[2]) % SCR_WIDTH, (vy + rc[1]) % SCR_HEIGHT >> :
        rc \in { p \in (0..(n - 1)) \X (0..7) :
                    Bit(memory[address + p[1]], 7 - p[2]) = 1 } }

Cells == (0..(SCR_WIDTH - 1)) \X (0..(SCR_HEIGHT - 1))

\* the cell (x, y) of the two framebuffers
MainCell(pixels, cell) == pixels[cell[2] * SCR_WIDTH + cell[1]]
EmuCell(grid, cell) == grid[cell[1]][cell[2]]

-----------------------------------------------------------------------------
(* C1..C10 *)

\* C1 (key-block persistence): once FX0A has executed, a step taken while no
\* key is held leaves the machine blocked and does not advance the program
\* counter (no instruction is executed).
C1_KeyBlockPersists ==
    [][ (MainRuns /\ blocked.blocked /\ NoKeyHeld(keys_pressed))
          => (blocked'.blocked /\ program_counter' = program_counter) ]_vars

\* C2 (key latch): a step taken while blocked on register r with a key held
\* writes the lowest held key to register r and to no other register, clears
\* the block and leaves the program counter where it was.
C2_KeyLatch ==
    [][ (MainRuns /\ blocked.blocked /\ ~NoKeyHeld(keys_pressed))
          => /\ registers' = [registers EXCEPT
                                ![blocked.register] = FirstPressed(keys_pressed, 0)]
             /\ ~blocked'.blocked
             /\ program_counter' = program_counter ]_vars

\* one tick interval as Timers::decrement counts it, in microseconds
TickMicros == (1000 \div 60) * 1000
Decremented(v) == IF v = 0 THEN 0 ELSE v - 1

\* C3 (timer tick exactness): when the durations fed to decrement() sum to
\* exactly one tick interval, each timer has been decremented exactly once.
C3_TickExactness ==
    (machine = "timers" /\ fed.total = TickMicros)
        => /\ timers.delay = Decremented(fed.delay)
           /\ timers.sound = Decremented(fed.sound)

\* C4 (accumulator carry-over): a decrement() call that brings the
\* accumulated time to the threshold leaves the accumulator at the
\* accumulated time minus one threshold.
C4_CarryOver ==
    [][ LET accumulated == timers.delta + as_millis(fed'.total - fed.total) IN
        (machine = "timers" /\ accumulated >= 1000 \div 60)
          => timers'.delta = accumulated - 1000 \div 60 ]_vars

\* C5 (return on an empty stack): executing 0x00EE with an empty call stack
\* ends the run with the stack underflow; the program counter is not given
\* a popped or default address, and no step follows the underflow.
C5_ReturnOnEmptyStackIsFatal ==
    [][ /\ halted # "StackUnderflow"
        /\ (MainRuns /\ MainWord = \H00EE /\ Len(callstack.pointers) = 0)
            => /\ halted' = "StackUnderflow"
               /\ program_counter' = program_counter + 2
               /\ callstack' = callstack
        /\ (EmuRuns /\ EmuWord = \H00EE /\ Len(emulator.call_stack) = 0)
            => /\ halted' = "StackUnderflow"
               /\ emulator'.program_counter = emulator.program_counter + 2
               /\ emulator'.call_stack = emulator.call_stack ]_vars

C5_Witness ==
    /\ machine = "main"
    /\ halted = "StackUnderflow"
    /\ current_instruction = \H00EE
    /\ callstack.pointers = << >>
    /\ program_counter = \H206

Last(seq) == seq[Len(seq)]
Front(seq) == SubSeq(seq, 1, Len(seq) - 1)

\* C6 (call/return ordering): 2NNN pushes the address after the call and
\* jumps to NNN; 00EE pops the most recently pushed address into the program
\* counter; the stack's depth is the number of calls less the number of
\* returns (Stack.size, which push and pop count up and down).
C6_CallReturnOrdering ==
    [][ /\ (MainRuns /\ MainWord \div 4096 = 2)
            => /\ callstack'.pointers = Append(callstack.pointers, program_counter + 2)
               /\ program_counter' = Low12(MainWord)
        /\ (MainRuns /\ MainWord = \H00EE /\ Len(callstack.pointers) > 0)
            => /\ program_counter' = Last(callstack.pointers)
               /\ callstack'.pointers = Front(callstack.pointers)
        /\ machine = "main" => callstack'.size = Len(callstack'.pointers)
        /\ (EmuRuns /\ EmuWord \div 4096 = 2)
            => /\ emulator'.call_stack
                    = Append(emulator.call_stack, emulator.program_counter + 2)
               /\ emulator'.program_counter = Low12(EmuWord)
        /\ (EmuRuns /\ EmuWord = \H00EE /\ Len(emulator.call_stack) > 0)
            => /\ emulator'.program_counter = Last(emulator.call_stack)
               /\ emulator'.call_stack = Front(emulator.call_stack) ]_vars

\* the return of the inner of two nested calls (CallRom: 0x200 calls 0x206,
\* which calls 0x20A) has resumed after the inner call
C6_Witness ==
    /\ machine = "main"
    /\ halted = "running"
    /\ current_instruction = \H00EE
    /\ program_counter = \H208
    /\ callstack = [pointers |-> << \H202 >>, size |-> 1]

\* C7 (jump with offset): BNNN sets the program counter to NNN + register[x]
\* (register[0] in legacy mode) and leaves the address register unchanged.
C7_JumpWithOffset ==
    [][ /\ (MainRuns /\ MainWord \div 4096 = 11)
            => /\ program_counter' = Low12(MainWord)
                    + registers[IF CLASSIC_JUMP THEN 0 ELSE Nibble(MainWord, 1)]
               /\ index_register' = index_register
        /\ (EmuRuns /\ EmuWord \div 4096 = 11)
            => /\ emulator'.program_counter
                    \in { Low12(EmuWord) + emulator.registers[Nibble(EmuWord, 1)],
                          Low12(EmuWord) + emulator.registers[0] }
               /\ emulator'.stack_pointer = emulator.stack_pointer ]_vars

\* C8 (clear): after 00E0 every cell of the framebuffer is false.
C8_ClearClearsEveryCell ==
    [][ /\ (MainRuns /\ MainWord = \H00E0)
            => \A cell \in Cells : ~MainCell(display', cell)
        /\ (EmuRuns /\ EmuWord = \H00E0)
            => \A cell \in Cells : ~EmuCell(emulator'.display, cell) ]_vars

\* C9 (sprite wrap): DXYN toggles exactly the cells ((register[x] + c) mod 64,
\* (register[y] + r) mod 32) of the set bits (r, c) of the sprite at I.
C9_SpriteWrap ==
    [][ /\ (MainRuns /\ MainWord \div 4096 = 13 /\ halted' = "running")
            => \A cell \in Cells :
                  (MainCell(display', cell) # MainCell(display, cell))
                    <=> cell \in SpriteCells(ram, index_register,
                                             registers[Nibble(MainWord, 1)],
                                             registers[Nibble(MainWord, 2)],
                                             Nibble(MainWord, 3))
        /\ (EmuRuns /\ EmuWord \div 4096 = 13 /\ halted' = "running")
            => \A cell \in Cells :
                  (EmuCell(emulator'.display, cell) # EmuCell(emulator.display, cell))
                    <=> cell \in SpriteCells(emulator.ram, emulator.stack_pointer,
                                             emulator.registers[Nibble(EmuWord, 1)],
                                             emulator.registers[Nibble(EmuWord, 2)],
                                             Nibble(EmuWord, 3)) ]_vars

\* C10 (draw collision flag): after DXYN register 0xF is 1 if a cell the
\* draw toggled was on before it, and 0 otherwise.
C10_DrawCollisionFlag ==
    [][ /\ (MainRuns /\ MainWord \div 4096 = 13 /\ halted' = "running")
            => registers'[15] =
                  IF \E cell \in Cells :
                        MainCell(display, cell) /\ ~MainCell(display', cell)
                  THEN 1 ELSE 0
        /\ (EmuRuns /\ EmuWord \div 4096 = 13 /\ halted' = "running")
            => emulator'.registers[15] =
                  IF \E cell \in Cells :
                        /\ EmuCell(emulator.display, cell)
                        /\ ~EmuCell(emulator'.display, cell)
                  THEN 1 ELSE 0 ]_vars

\* the all-set row of the sprite has been drawn a second time on itself at
\* (4, 2): the cells are off again and the flag is 1
C10_Witness ==
    /\ machine = "emulator"
    /\ halted = "running"
    /\ cycle_result.summary = [full |-> \HD012, text |-> "DRAW"]
    /\ emulator.program_counter = \H20A
    /\ emulator.registers[0] = 4
    /\ emulator.registers[1] = 2
    /\ emulator.registers[15] = 1
    /\ \A cell \in Cells : ~EmuCell(emulator.display, cell)

-----------------------------------------------------------------------------
(* C11..C20 *)

\* the step about to be taken executes 8XYn
MainAluStep(n) == MainRuns /\ MainWord \div 4096 = 8 /\ Nibble(MainWord, 3) = n
EmuAluStep(n) == EmuRuns /\ EmuWord \div 4096 = 8 /\ Nibble(EmuWord, 3) = n

\* C11 (ALU add): after 8XY4, for every x and y in 0..15 (x = 0xF and y = 0xF
\* included), register 0xF is 1 if register[x] + register[y] exceeded 255 and
\* 0 otherwise, and for x # 0xF register[x] is the sum modulo 256.
C11_AddCarry ==
    [][ /\ MainAluStep(4)
            => LET x == Nibble(MainWord, 1)
                   sum == registers[x] + registers[Nibble(MainWord, 2)]
               IN /\ registers'[15] = IF sum > 255 THEN 1 ELSE 0
                  /\ x # 15 => registers'[x] = sum % 256
        /\ EmuAluStep(4)
            => LET x == Nibble(EmuWord, 1)
                   sum == emulator.registers[x]
                          + emulator.registers[Nibble(EmuWord, 2)]
               IN /\ emulator'.registers[15] = IF sum > 255 THEN 1 ELSE 0
                  /\ x # 15 => emulator'.registers[x] = sum % 256 ]_vars

\* C12 (subtract, no-borrow flag): for x # 0xF, 8XY5 stores
\* (register[x] - register[y]) mod 256 in register[x] and sets register 0xF
\* to 1 exactly when register[x] >= register[y] (equality included); 8XY7
\* stores (register[y] - register[x]) mod 256 and sets register 0xF to 1
\* exactly when register[y] >= register[x].
C12_SubtractNoBorrow ==
    [][ /\ \A n \in {5, 7} :
              (MainAluStep(n) /\ Nibble(MainWord, 1) # 15)
                => LET x == Nibble(MainWord, 1)
                       rx == registers[x]
                       ry == registers[Nibble(MainWord, 2)]
                       minuend == IF n = 5 THEN rx ELSE ry
                       subtrahend == IF n = 5 THEN ry ELSE rx
                   IN /\ registers'[x] = (minuend - subtrahend) % 256
                      /\ registers'[15] = IF minuend >= subtrahend THEN 1 ELSE 0
        /\ \A n \in {5, 7} :
              (EmuAluStep(n) /\ Nibble(EmuWord, 1) # 15)
                => LET x == Nibble(EmuWord, 1)
                       rx == emulator.registers[x]
                       ry == emulator.registers[Nibble(EmuWord, 2)]
                       minuend == IF n = 5 THEN rx ELSE ry
                       subtrahend == IF n = 5 THEN ry ELSE rx
                   IN /\ emulator'.registers[x] = (minuend - subtrahend) % 256
                      /\ emulator'.registers[15]
                            = IF minuend >= subtrahend THEN 1 ELSE 0 ]_vars

\* the register a shift of main.rs reads: register[y] in legacy mode
MainShiftSource ==
    registers[Nibble(MainWord, IF CLASSIC_BITSHIFT THEN 2 ELSE 1)]

\* C13 (shift right): after 8XY6, for every x (0xF included) and every value
\* v of the source register, register 0xF is v mod 2 and, for x # 0xF,
\* register[x] is v div 2.
C13_ShiftRight ==
    [][ /\ MainAluStep(6)
            => /\ registers'[15] = MainShiftSource % 2
               /\ Nibble(MainWord, 1) # 15
                     => registers'[Nibble(MainWord, 1)] = MainShiftSource \div 2
        /\ EmuAluStep(6)
            => LET x == Nibble(EmuWord, 1)
                   v == emulator.registers[x]
               IN /\ emulator'.registers[15] = v % 2
                  /\ x # 15 => emulator'.registers[x] = v \div 2 ]_vars

\* C14 (shift left): after 8XYE, for every value v of the source register,
\* register 0xF is bit 7 of v and, for x # 0xF, register[x] is (2 * v) mod 256.
C14_ShiftLeft ==
    [][ /\ MainAluStep(14)
            => /\ registers'[15] = Bit(MainShiftSource, 7)
               /\ Nibble(MainWord, 1) # 15
                     => registers'[Nibble(MainWord, 1)] = (2 * MainShiftSource) % 256
        /\ EmuAluStep(14)
            => LET x == Nibble(EmuWord, 1)
                   v == emulator.registers[x]
               IN /\ emulator'.registers[15] = Bit(v, 7)
                  /\ x # 15 => emulator'.registers[x] = (2 * v) % 256 ]_vars

\* the step about to be taken executes FXnn with low byte `byte`
MainMiscStep(byte) == MainRuns /\ MainWord \div 4096 = 15 /\ MainWord % 256 = byte
EmuMiscStep(byte) == EmuRuns /\ EmuWord \div 4096 = 15 /\ EmuWord % 256 = byte

\* C15 (register store): FX55 with I + x inside the memory writes register[i]
\* to memory[I + i] for exactly i = 0..x (register 0xF when x = 0xF) and
\* leaves every other byte of the memory unchanged.
C15_RegisterStore ==
    [][ /\ (MainMiscStep(\H55) /\ InRam(index_register + Nibble(MainWord, 1)))
            => ram' = [a \in 0..(RAM_SIZE - 1) |->
                         IF /\ a >= index_register
                            /\ a <= index_register + Nibble(MainWord, 1)
                         THEN registers[a - index_register] ELSE ram[a]]
        /\ (EmuMiscStep(\H55)
              /\ InRam(emulator.stack_pointer + Nibble(EmuWord, 1)))
            => emulator'.ram = [a \in 0..(RAM_SIZE - 1) |->
                         IF /\ a >= emulator.stack_pointer
                            /\ a <= emulator.stack_pointer + Nibble(EmuWord, 1)
                         THEN emulator.registers[a - emulator.stack_pointer]
                         ELSE emulator.ram[a]] ]_vars

\* C16 (register load): FX65 with I + x inside the memory sets
\* register[i] = memory[I + i] for exactly i = 0..x and leaves registers
\* x+1..0xF unchanged.
C16_RegisterLoad ==
    [][ /\ (MainMiscStep(\H65) /\ InRam(index_register + Nibble(MainWord, 1)))
            => registers' = [i \in 0..(NUM_REGISTERS - 1) |->
                               IF i <= Nibble(MainWord, 1)
                               THEN ram[index_register + i] ELSE registers[i]]
        /\ (EmuMiscStep(\H65)
              /\ InRam(emulator.stack_pointer + Nibble(EmuWord, 1)))
            => emulator'.registers = [i \in 0..(NUM_REGISTERS - 1) |->
                               IF i <= Nibble(EmuWord, 1)
                               THEN emulator.ram[emulator.stack_pointer + i]
                               ELSE emulator.registers[i]] ]_vars

\* the step about to be taken executes EXnn with low byte `byte`
MainKeyStep(byte) == MainRuns /\ MainWord \div 4096 = 14 /\ MainWord % 256 = byte
EmuKeyStep(byte) == EmuRuns /\ EmuWord \div 4096 = 14 /\ EmuWord % 256 = byte

\* C17 (key skips): with register[x] the number of a key, EX9E advances the
\* program counter by 4 exactly when key number register[x] is held and by 2
\* otherwise; EXA1 by 4 exactly when that key is released and by 2 otherwise.
\* The key state is the one the step reads: keys_pressed of main.rs, the keys
\* the driver supplied with the cycle for the Emulator.
C17_KeySkipByValue ==
    [][ /\ \A byte \in {\H9E, \HA1} :
              (MainKeyStep(byte) /\ registers[Nibble(MainWord, 1)] < NUM_KEYS)
                => LET held == keys_pressed[registers[Nibble(MainWord, 1)]] IN
                   program_counter' = program_counter
                        + (IF held <=> (byte = \H9E) THEN 4 ELSE 2)
        /\ \A byte \in {\H9E, \HA1} :
              (EmuKeyStep(byte) /\ emulator.registers[Nibble(EmuWord, 1)] < NUM_KEYS)
                => LET held == emulator'.keys[emulator.registers[Nibble(EmuWord, 1)]] IN
                   emulator'.program_counter = emulator.program_counter
                        + (IF held <=> (byte = \H9E) THEN 4 ELSE 2) ]_vars

\* C18 (only two fatal conditions): a step that ends the run is a return on
\* an empty call stack or an access to the memory outside 0..4095; no other
\* instruction aborts the machine.
C18_OnlyTwoFatalConditions ==
    [][ (halted = "running" /\ halted' # "running")
          => \/ /\ halted' = "StackUnderflow"
                /\ \/ machine = "main" /\ MainWord = \H00EE
                         /\ Len(callstack.pointers) = 0
                   \/ machine = "emulator" /\ EmuWord = \H00EE
                         /\ Len(emulator.call_stack) = 0
             \/ halted' = "OutOfBounds" ]_vars

\* an instruction word that matches no row of the opcode table: an unknown
\* low byte under 0x0, 0xE or 0xF, an unknown low nibble under 0x8
UnknownWord(word) ==
    LET opcode == word \div 4096
        byte == word % 256
    IN \/ opcode = 0 /\ byte \notin {\HE0, \HEE}
       \/ opcode = 8 /\ word % 16 \notin (0..7) \cup {14}
       \/ opcode = 14 /\ byte \notin {\H9E, \HA1}
       \/ opcode = 15 /\ byte \notin {\H07, \H0A, \H15, \H18, \H1E, \H29,
                                        \H33, \H55, \H65}

\* C19 (unknown instructions): a step that executes an instruction word no
\* row of the opcode table matches does not abort, advances the program
\* counter by exactly 2 and leaves the memory, the registers, the address
\* register, the call stack, the framebuffer, the timers and the key-block
\* state unchanged.  In main.rs the step is one call of the closure: the
\* instruction executes when no key block is pending, and the timers are
\* those the closure's timer block left.
C19_UnknownIsNoOp ==
    [][ /\ (MainRuns /\ UnknownWord(MainWord) /\ ~blocked.blocked)
            => /\ halted' = "running"
               /\ program_counter' = program_counter + 2
               /\ ram' = ram
               /\ registers' = registers
               /\ index_register' = index_register
               /\ callstack' = callstack
               /\ display' = display
               /\ delay_timer' = MainTimers(MainState, clock').delay_timer
               /\ sound_timer' = MainTimers(MainState, clock').sound_timer
               /\ blocked' = blocked
        /\ (EmuRuns /\ UnknownWord(EmuWord))
            => /\ halted' = "running"
               /\ emulator' = [emulator EXCEPT
                                  !.program_counter = @ + 2,
                                  !.keys = emulator'.keys] ]_vars

\* the Emulator has executed F1FF of UnknownRom as it did 0123, 8128, 812F
\* and E100 before it: nothing but the program counter has moved
C19_Witness ==
    /\ machine = "emulator"
    /\ halted = "running"
    /\ cycle_result.summary = [full |-> \HF1FF, text |-> "???"]
    /\ emulator.program_counter = \H216
    /\ emulator.registers[1] = 5
    /\ emulator.registers[2] = \HAA
    /\ emulator.stack_pointer = \H234
    /\ emulator.call_stack = << \H20C >>
    /\ emulator.timer = 5
    /\ emulator.key_block = NUM_REGISTERS

\* C20 (memory load bounds): a load of `len` bytes (at least one) at
\* `start_index` with start_index + len > 4096 fails with OutOfBounds, for
\* lengths of 65536 or more as for shorter ones; it never completes having
\* loaded only part of (or none of) the bytes.
C20_LoadBounds ==
    (/\ machine = "loader"
     /\ rom_load.done
     /\ rom_load.len > 0
     /\ rom_load.start_index + rom_load.len > RAM_SIZE)
        => halted = "OutOfBounds"

-----------------------------------------------------------------------------
(* C21..C29 *)

\* the memory after the three decimal digits of v were stored at address
BcdStored(memory, address, v) ==
    [memory EXCEPT ![address] = v \div 100,
                   ![address + 1] = (v \div 10) % 10,
                   ![address + 2] = v % 10]

\* the three bytes at address are decimal digits and spell v
SpellsDecimal(memory, address, v) ==
    /\ \A k \in 0..2 : memory[address + k] \in 0..9
    /\ 100 * memory[address] + 10 * memory[address + 1] + memory[address + 2] = v

\* C21 (BCD store): FX33 with I..I+2 inside the memory stores v div 100,
\* (v div 10) mod 10 and v mod 10 of v = register[x] at I, I+1 and I+2, so
\* that the three bytes are digits in 0..9 and spell v; no other memory byte
\* and no register changes.
C21_BcdStore ==
    [][ /\ (MainMiscStep(\H33) /\ InRam(index_register + 2))
            => LET v == registers[Nibble(MainWord, 1)] IN
               /\ ram' = BcdStored(ram, index_register, v)
               /\ SpellsDecimal(ram', index_register, v)
               /\ registers' = registers
        /\ (EmuMiscStep(\H33) /\ InRam(emulator.stack_pointer + 2))
            => LET v == emulator.registers[Nibble(EmuWord, 1)] IN
               /\ emulator'.ram = BcdStored(emulator.ram, emulator.stack_pointer, v)
               /\ SpellsDecimal(emulator'.ram, emulator.stack_pointer, v)
               /\ emulator'.registers = emulator.registers ]_vars

\* main.rs has stored the digits 2, 5, 5 of V1 = 255 at 0x310, after the
\* digits 1, 5, 6 of V0 = 156 at 0x300
C21_Witness ==
    /\ machine = "main"
    /\ halted = "running"
    /\ current_instruction = \HF133
    /\ registers[0] = 156
    /\ registers[1] = 255
    /\ << ram[\H300], ram[\H301], ram[\H302] >> = << 1, 5, 6 >>
    /\ << ram[\H310], ram[\H311], ram[\H312] >> = << 2, 5, 5 >>

\* the fields of a decoded instruction re-encode to the word they came from
RoundTrip(high, low, opcode, x, y, n, nn, nnn) ==
    /\ opcode * 4096 + nnn = high * 256 + low
    /\ x = nnn \div 256
    /\ y = (nnn \div 16) % 16
    /\ n = nnn % 16
    /\ nn = low
    /\ opcode * 4096 + x * 256 + y * 16 + n = high * 256 + low

\* C22 (decoder round trip): for a decoded byte pair (high, low),
\* opcode*4096 + nnn = high*256 + low, x = nnn div 256,
\* y = (nnn div 16) mod 16, n = nnn mod 16 and nn = low, so the fields
\* re-encode to the original word; for Instruction::from_bytes and for
\* Instruction::from (whose full field is the word itself).
C22_DecoderRoundTrip ==
    (machine = "decoder" /\ decoded.done)
        => /\ LET i == decoded.from_bytes IN
              RoundTrip(decoded.highbyte, decoded.lowbyte,
                        i.opcode, i.x, i.y, i.n, i.nn, i.nnn)
           /\ LET i == decoded.from IN
              /\ RoundTrip(decoded.highbyte, decoded.lowbyte,
                           i.opcode, i.x, i.y, i.n, i.byte, i.addr)
              /\ i.full = decoded.highbyte * 256 + decoded.lowbyte

\* the pair (0xD5, 0x6A) has been decoded into opcode 0xD, x 5, y 6, n 0xA
C22_Witness ==
    /\ machine = "decoder"
    /\ decoded.done
    /\ decoded.highbyte = \HD5
    /\ decoded.lowbyte = \H6A
    /\ decoded.from_bytes = [opcode |-> 13, x |-> 5, y |-> 6, n |-> 10,
                             nn |-> \H6A, nnn |-> \H56A]
    /\ decoded.from.addr = \H56A

\* C24 (register isolation): a set(i, v) on register i in 0..15 makes get(i)
\* return v and leaves every register j # i unchanged, and a set(i, v) that
\* repeats the one before it changes nothing further.
C24_RegisterIsolation ==
    [][ (machine = "registers" /\ halted = "running" /\ regfile'.called
           /\ regfile'.reg < NUM_REGISTERS)
          => /\ halted' = "running"
             /\ regfile'.got = regfile'.val
             /\ RegistersGet(regfile'.gen, regfile'.reg) = regfile'.val
             /\ \A j \in 0..(NUM_REGISTERS - 1) :
                   j # regfile'.reg => regfile'.gen[j] = regfile.gen[j]
             /\ (regfile.called /\ regfile'.reg = regfile.reg
                   /\ regfile'.val = regfile.val)
                  => regfile'.gen = regfile.gen ]_vars

\* register 7 was set to 255 after registers 0 and 15 were set to 9
C24_Witness ==
    /\ machine = "registers"
    /\ halted = "running"
    /\ regfile.called
    /\ regfile.reg = 7
    /\ regfile.val = 255
    /\ regfile.got = 255
    /\ regfile.gen = [r \in 0..(NUM_REGISTERS - 1) |->
                         IF r = 7 THEN 255 ELSE IF r \in {0, 15} THEN 9 ELSE 0]

\* the program 6005, 7003, F029 is in the memory at 0x200
EndToEndLoaded(memory) ==
    \A k \in 1..6 :
        memory[PROGRAM_START + k - 1] = RomBytes(<< \H6005, \H7003, \HF029 >>)[k]

\* C23 (end-to-end scenario): with the program 6005, 7003, F029 at 0x200,
\* each of the first three steps moves the program counter on by 2 from
\* 0x200, and the third leaves register 0 = 8, the address register = 40 and
\* the program counter = 0x206.
C23_EndToEnd ==
    [][ /\ (MainRuns /\ EndToEndLoaded(ram)
              /\ program_counter \in {\H200, \H202, \H204})
            => /\ halted' = "running"
               /\ program_counter' = program_counter + 2
               /\ program_counter' = \H206
                    => registers'[0] = 8 /\ index_register' = 40
        /\ (EmuRuns /\ EndToEndLoaded(emulator.ram)
              /\ emulator.program_counter \in {\H200, \H202, \H204})
            => /\ halted' = "running"
               /\ emulator'.program_counter = emulator.program_counter + 2
               /\ emulator'.program_counter = \H206
                    => /\ emulator'.registers[0] = 8
                       /\ emulator'.stack_pointer = 40 ]_vars

\* the Emulator after its third cycle on the program
C23_Witness ==
    /\ machine = "emulator"
    /\ halted = "running"
    /\ EndToEndLoaded(emulator.ram)
    /\ cycle_result.summary.full = \HF029
    /\ emulator.program_counter = \H206
    /\ emulator.registers[0] = 8
    /\ emulator.stack_pointer = 40

\* C25 (display_dirty): the flag cycle() returns is true for every step that
\* modified the framebuffer and false for every step that left it unchanged.
C25_DisplayDirty ==
    [][ (EmuRuns /\ halted' = "running")
          => (cycle_result'.redraw <=> emulator'.display # emulator.display) ]_vars

\* the instruction defines a flag: 8XY4, 8XY5, 8XY6, 8XY7, 8XYE, DXYN
DefinesFlag(word) ==
    \/ word \div 4096 = 8 /\ word % 16 \in {4, 5, 6, 7, 14}
    \/ word \div 4096 = 13

\* the instruction writes a register it names, and names register 0xF
FlagIsDestination(word) ==
    /\ Nibble(word, 1) = 15
    /\ \/ word \div 4096 \in {6, 7, 8, 12}
       \/ word \div 4096 = 15 /\ word % 256 \in {\H07, \H0A, \H65}

\* C26 (flag register frame): a step whose instruction defines no flag and
\* has a destination other than register 0xF leaves register 0xF unchanged;
\* 7XNN with x # 0xF stores (register[x] + NN) mod 256 in register[x].
C26_FlagFrame ==
    [][ /\ (MainRuns /\ ~DefinesFlag(MainWord) /\ ~FlagIsDestination(MainWord))
            => /\ registers'[15] = registers[15]
               /\ MainWord \div 4096 = 7
                    => registers'[Nibble(MainWord, 1)]
                         = (registers[Nibble(MainWord, 1)] + (MainWord % 256)) % 256
        /\ (EmuRuns /\ ~DefinesFlag(EmuWord) /\ ~FlagIsDestination(EmuWord))
            => /\ emulator'.registers[15] = emulator.registers[15]
               /\ EmuWord \div 4096 = 7
                    => emulator'.registers[Nibble(EmuWord, 1)]
                         = (emulator.registers[Nibble(EmuWord, 1)]
                              + (EmuWord % 256)) % 256 ]_vars

\* the Emulator has added 2 to V0 = 255 with VF = 7: V0 wrapped to 1 and
\* VF is still 7
C26_Witness ==
    /\ machine = "emulator"
    /\ halted = "running"
    /\ cycle_result.summary = [full |-> \H7002, text |-> "IMM ADD"]
    /\ emulator.program_counter = \H206
    /\ emulator.registers[0] = 1
    /\ emulator.registers[15] = 7

\* the condition of the skip `word` on the registers regs
SkipCondition(word, regs) ==
    LET vx == regs[Nibble(word, 1)]
        vy == regs[Nibble(word, 2)]
    IN CASE word \div 4096 = 3 -> vx = word % 256
         [] word \div 4096 = 4 -> vx # word % 256
         [] word \div 4096 = 5 -> vx = vy
         [] word \div 4096 = 9 -> vx # vy

\* 3XNN, 4XNN, 5XY0 or 9XY0
IsSkip(word) ==
    \/ word \div 4096 \in {3, 4}
    \/ word \div 4096 \in {5, 9} /\ word % 16 = 0

\* C27 (conditional skips): 3XNN, 4XNN, 5XY0 and 9XY0 leave the program
\* counter at its value before the fetch + 4 when their condition holds and
\* + 2 when it does not, and change no register, memory byte, stack entry
\* or framebuffer cell.
C27_ConditionalSkips ==
    [][ /\ (MainRuns /\ IsSkip(MainWord))
            => /\ halted' = "running"
               /\ program_counter' = program_counter
                    + (IF SkipCondition(MainWord, registers) THEN 4 ELSE 2)
               /\ UNCHANGED << registers, ram, callstack, display >>
        /\ (EmuRuns /\ IsSkip(EmuWord))
            => /\ halted' = "running"
               /\ emulator'.program_counter = emulator.program_counter
                    + (IF SkipCondition(EmuWord, emulator.registers) THEN 4 ELSE 2)
               /\ emulator'.registers = emulator.registers
               /\ emulator'.ram = emulator.ram
               /\ emulator'.call_stack = emulator.call_stack
               /\ emulator'.display = emulator.display ]_vars

\* main.rs has executed 5010 at 0x216 with V0 = V1 = 2 and skipped to 0x21A
C27_Witness ==
    /\ machine = "main"
    /\ halted = "running"
    /\ current_instruction = \H5010
    /\ registers[0] = 2
    /\ registers[1] = 2
    /\ program_counter = \H21A

\* the number of bytes at the address register the instruction accesses:
\* the n rows of DXYN, the 3 digits of FX33, the registers of FX55 and FX65
\* (0..=x in Emulator::cycle, 0..0xF in main.rs)
OperandBytes(word, store_load_bytes) ==
    IF word \div 4096 = 13 THEN word % 16
    ELSE IF word \div 4096 = 15 /\ word % 256 = \H33 THEN 3
    ELSE IF word \div 4096 = 15 /\ word % 256 \in {\H55, \H65} THEN store_load_bytes
    ELSE 0

\* the fetch at pc, or the operand access of `bytes` bytes at address,
\* computes an address outside the memory
AccessOutside(pc, address, bytes) ==
    \/ ~InRam(pc + 1)
    \/ bytes > 0 /\ ~InRam(address + bytes - 1)

\* C28 (out-of-range access is fatal, never wrapped): a step whose fetch
\* (PC, PC+1) or operand access (DXYN, FX33, FX55, FX65 at address register
\* + offset) computes an address outside 0..4095 ends in OutOfBounds; the
\* only bytes of the memory it has changed are at the addresses from the
\* address register up, and the only registers it has changed were loaded
\* by FX65 from addresses inside the memory.
C28_OutOfRangeIsFatal ==
    [][ /\ LET bytes == OperandBytes(MainWord, 15) IN
           (MainRuns /\ AccessOutside(program_counter, index_register, bytes))
            => /\ halted' = "OutOfBounds"
               /\ \A a \in 0..(RAM_SIZE - 1) :
                     ram'[a] # ram[a] => a >= index_register
               /\ \A i \in 0..(NUM_REGISTERS - 1) :
                     registers'[i] # registers[i]
                       => /\ MainWord % 256 = \H65
                          /\ InRam(index_register + i)
                          /\ registers'[i] = ram[index_register + i]
        /\ LET bytes == OperandBytes(EmuWord, Nibble(EmuWord, 1) + 1) IN
           (EmuRuns /\ AccessOutside(emulator.program_counter,
                                     emulator.stack_pointer, bytes))
            => /\ halted' = "OutOfBounds"
               /\ \A a \in 0..(RAM_SIZE - 1) :
                     emulator'.ram[a] # emulator.ram[a]
                       => a >= emulator.stack_pointer
               /\ \A i \in 0..(NUM_REGISTERS - 1) :
                     emulator'.registers[i] # emulator.registers[i]
                       => /\ EmuWord % 256 = \H65
                          /\ InRam(emulator.stack_pointer + i)
                          /\ emulator'.registers[i]
                               = emulator.ram[emulator.stack_pointer + i]
               /\ emulator'.display = emulator.display ]_vars

\* the Emulator has stored V0 and V1 at 0xFFE and 0xFFF and ended on the
\* store of V2 at 0x1000; the byte at address 0 is the font's
C28_Witness ==
    /\ machine = "emulator"
    /\ halted = "OutOfBounds"
    /\ emulator.program_counter = \H20A
    /\ emulator.stack_pointer = \HFFE
    /\ emulator.registers[2] = \H33
    /\ emulator.ram[\HFFE] = \H11
    /\ emulator.ram[\HFFF] = \H22
    /\ emulator.ram[0] = FontBin[1]

\* a cycle() about to run on the Emulator self
Entering(self) ==
    [self |-> self, redraw |-> FALSE, summary |-> [full |-> 0, text |-> ""],
     halted |-> "running"]

\* C29 (draw is an involution): when a DXYN has completed and left its
\* coordinate registers as they were, the same DXYN executed again on the
\* state it produced (same memory, address register and coordinates)
\* restores every framebuffer cell to its value before the first.
C29_DrawInvolution ==
    [][ /\ LET x == Nibble(MainWord, 1)
               y == Nibble(MainWord, 2)
           IN (MainRuns /\ MainWord \div 4096 = 13 /\ halted' = "running"
                 /\ registers'[x] = registers[x] /\ registers'[y] = registers[y])
                => MainDraw(MainState', x, y, Nibble(MainWord, 3)).display = display
        /\ LET x == Nibble(EmuWord, 1)
               y == Nibble(EmuWord, 2)
           IN (EmuRuns /\ EmuWord \div 4096 = 13 /\ halted' = "running"
                 /\ emulator'.registers[x] = emulator.registers[x]
                 /\ emulator'.registers[y] = emulator.registers[y])
                => EmuDraw(Entering(emulator'), emulator'.registers[x],
                           emulator'.registers[y], Nibble(EmuWord, 3)).self.display
                     = emulator.display ]_vars

\* main.rs has drawn the two-row sprite twice at (60, 31), where it runs
\* past the right and the bottom edge: every cell is off as before the first
C29_Witness ==
    /\ machine = "main"
    /\ halted = "running"
    /\ current_instruction = \HD012
    /\ program_counter = \H20A
    /\ registers[0] = 60
    /\ registers[1] = 31
    /\ registers[15] = 1
    /\ display = DisplayClear

=============================================================================
